---- MODULE Spec2Model ----
(***************************************************************************)
(* The BMAD workflow execution engine (bmad_engine.py) and the workflow    *)
(* state store backing its resumability (bmad_state.py).                   *)
(*                                                                         *)
(* The state store keeps one JSON file per workflow name.  The engine runs *)
(* the steps of a workflow one after the other, starting at the index      *)
(* len(stepsCompleted) read from the store, and records each successful    *)
(* step through mark_step_complete.                                        *)
(***************************************************************************)
EXTENDS Integers, Sequences, FiniteSets, TLC

(***************************************************************************)
(* Bounds of the model.                                                    *)
(***************************************************************************)
\* Longest workflow definition (number of steps).
MaxSteps == 3
\* Number of operations the caller makes in one behaviour: calls of
\* execute_workflow and direct calls of the state store.
MaxOps == 3
\* Most participants (agent_types) and most rounds of a party session.
MaxAgents == 4
MaxRounds == 4
\* Most agent sessions of a party session that raise.
MaxFailures == 1

\* Workflow names (state-file keys).
Keys == {"w1", "w2"}
\* Step names a definition may use; two steps may carry the same name.
StepNames == {"a", "b"}

\* The value of an Optional[int] that is None.
NoneInt == -1
\* The value of a dictionary key that is not in the dictionary.
Absent == "absent"

(***************************************************************************)
(* Sequences helpers.                                                      *)
(***************************************************************************)
SeqsUpTo(S, n) == UNION {[1..m -> S] : m \in 0..n}

InSeq(x, s) == \E j \in 1..Len(s) : s[j] = x

IsPrefix(s, t) == Len(s) <= Len(t) /\ \A j \in 1..Len(s) : s[j] = t[j]

NoDuplicates(s) == \A i, j \in 1..Len(s) : s[i] = s[j] => i = j

(***************************************************************************)
(* The state store: WorkflowStateManager.                                  *)
(***************************************************************************)
\* What get_state returns for a file that is absent or unreadable.
DefaultState ==
    [status |-> "not_started", stepsCompleted |-> <<>>, currentStep |-> 0,
     startedAt |-> FALSE, completedAt |-> FALSE, failedAt |-> FALSE,
     lastUpdated |-> FALSE, lastError |-> Absent, failedAtStep |-> NoneInt]

\* A state file: absent, unreadable (not JSON), or holding a record.
NoFile == [kind |-> "absent", data |-> DefaultState]
CorruptFile == [kind |-> "corrupt", data |-> DefaultState]
JsonFile(state) == [kind |-> "json", data |-> state]

\* get_state returning an empty dictionary for a file json.load cannot read.
GetStateEmpty(fs, k) ==
    CASE fs[k].kind = "json" -> fs[k].data
      [] fs[k].kind = "absent" -> DefaultState
      [] OTHER -> [DefaultState EXCEPT !.status = Absent]

\* get_state: the stored record, the default one when the file is absent or
\* json.load raises.
GetState(fs, k) == IF fs[k].kind = "json" THEN fs[k].data ELSE DefaultState

\* The outcomes of save_state's open(state_file, "w") + json.dump: written;
\* open raised (file as it was); the write raised after open truncated the
\* file (the file is left unreadable).  The last two return False.
WriteOutcomes == {"ok", "unchanged", "truncated"}

SaveState(fs, k, state, w) ==
    CASE w = "ok" -> [fs EXCEPT ![k] = JsonFile(state)]
      [] w = "unchanged" -> fs
      [] w = "truncated" -> [fs EXCEPT ![k] = CorruptFile]

SaveStateFlag(w) == w = "ok"

\* mark_step_complete appending without the membership test.
StepCompletedRecordAppending(state, step_name) ==
    LET appended == Append(state.stepsCompleted, step_name)
        started == state.status = "not_started"
    IN [state EXCEPT
          !.stepsCompleted = appended,
          !.status = IF started THEN "in_progress" ELSE @,
          !.startedAt = IF started THEN TRUE ELSE @,
          !.currentStep = Len(appended),
          !.lastUpdated = TRUE]

\* mark_step_complete counting one more step instead of taking the length.
StepCompletedRecordCounting(state, step_name) ==
    LET appended == IF InSeq(step_name, state.stepsCompleted)
                    THEN state.stepsCompleted
                    ELSE Append(state.stepsCompleted, step_name)
        started == state.status = "not_started"
    IN [state EXCEPT
          !.stepsCompleted = appended,
          !.status = IF started THEN "in_progress" ELSE @,
          !.startedAt = IF started THEN TRUE ELSE @,
          !.currentStep = @ + 1,
          !.lastUpdated = TRUE]

\* mark_step_complete, the record it builds from the one it read.
StepCompletedRecord(state, step_name) ==
    LET appended == IF InSeq(step_name, state.stepsCompleted)
                    THEN state.stepsCompleted
                    ELSE Append(state.stepsCompleted, step_name)
        started == state.status = "not_started"
    IN [state EXCEPT
          !.stepsCompleted = appended,
          !.status = IF started THEN "in_progress" ELSE @,
          !.startedAt = IF started THEN TRUE ELSE @,
          !.currentStep = Len(appended),
          !.lastUpdated = TRUE]

MarkStepComplete(fs, k, step_name, w) ==
    SaveState(fs, k, StepCompletedRecord(GetState(fs, k), step_name), w)

\* mark_workflow_complete, the record it builds.
WorkflowCompletedRecord(state) ==
    [state EXCEPT !.status = "completed", !.completedAt = TRUE,
                  !.lastUpdated = TRUE]

MarkWorkflowComplete(fs, k, w) ==
    SaveState(fs, k, WorkflowCompletedRecord(GetState(fs, k)), w)

\* mark_workflow_failed, the record it builds.
WorkflowFailedRecord(state, error, step_num) ==
    [state EXCEPT !.status = "failed", !.lastError = error,
                  !.failedAtStep = IF step_num # NoneInt THEN step_num ELSE @,
                  !.failedAt = TRUE, !.lastUpdated = TRUE]

MarkWorkflowFailed(fs, k, error, step_num, w) ==
    SaveState(fs, k, WorkflowFailedRecord(GetState(fs, k), error, step_num), w)

\* reset_workflow: unlink the file if it exists; unlink may raise (False).
ResetOutcomes == {"ok", "unlink_raises"}

\* reset_workflow that reports success without unlinking the file.
ResetWorkflowKeeping(fs, k, r) == fs

\* reset_workflow clearing the state directory instead of the one file.
ResetWorkflowAll(fs, k, r) ==
    IF fs[k].kind # "absent" /\ r = "ok" THEN [j \in Keys |-> NoFile] ELSE fs

ResetWorkflow(fs, k, r) ==
    IF fs[k].kind # "absent" /\ r = "ok" THEN [fs EXCEPT ![k] = NoFile] ELSE fs

ResetWorkflowFlag(fs, k, r) == fs[k].kind = "absent" \/ r = "ok"

\* get_resume_point counting steps from 1.
GetResumePointOneBased(fs, k) ==
    IF fs[k].kind = "json" /\ fs[k].data.status = "completed" THEN NoneInt
    ELSE (IF fs[k].kind = "json" THEN fs[k].data.currentStep ELSE 0) + 1

\* get_resume_point and can_resume.
GetResumePoint(fs, k) ==
    IF GetState(fs, k).status = "completed" THEN NoneInt
    ELSE GetState(fs, k).currentStep

CanResume(fs, k) == GetState(fs, k).status = "in_progress"

(***************************************************************************)
(* The definition registry: WorkflowEngine.load_workflow.                  *)
(***************************************************************************)
\* A workflow definition as execute_workflow uses it: whether find_workflow
\* finds its directory, and the names of its steps in order.
Definitions == [found : BOOLEAN, steps : SeqsUpTo(StepNames, MaxSteps)]

\* The name of the first step is "a": which of the names comes first makes no
\* difference to the engine or the store, which only compare names.
FirstNamed(steps) == Len(steps) > 0 => steps[1] = "a"

\* The names that may have a definition under _bmad/bmm/workflows; a state
\* file may exist for any name.
Installable == {"w1"}

\* A workflow that is not found has no steps to speak of.
Registries ==
    {reg \in [Keys -> Definitions] :
        \A k \in Keys : /\ ~reg[k].found => reg[k].steps = <<>>
                        /\ reg[k].found => k \in Installable
                        /\ FirstNamed(reg[k].steps)}

(***************************************************************************)
(* The step executor: WorkflowEngine._execute_step.                        *)
(***************************************************************************)
\* What one execution of a step can meet, in the order of the code: the step
\* file is missing; reading it raises; creating spec_dir raises; creating the
\* client or running the agent session raises; the session returns a status.
SessionStatuses == {"complete", "continue", "error"}
StepOutcomes ==
    {"file_missing", "read_raises", "mkdir_raises", "session_raises"}
        \cup SessionStatuses

StepSuccess == [raised |-> FALSE, status |-> "success", error |-> Absent]
StepFailed(error) == [raised |-> FALSE, status |-> "failed", error |-> error]
StepRaised == [raised |-> TRUE, status |-> Absent, error |-> Absent]

ExecuteStep(o) ==
    CASE o = "file_missing" -> StepFailed("Step file not found")
      [] o \in {"read_raises", "mkdir_raises"} -> StepRaised
      [] o = "session_raises" -> StepFailed("Error executing step")
      [] o \in {"complete", "continue"} -> StepSuccess
      [] OTHER -> StepFailed("Agent session ended with status")

(***************************************************************************)
(* The engine: WorkflowEngine.execute_workflow.                            *)
(***************************************************************************)
VARIABLES
    workflows,    \* the registry; a behaviour keeps its definitions
    files,        \* the state directory: workflow name -> state file
    pc,           \* "idle", "running", "returned", "raised"
    call,         \* the call in progress, or the last one
    trace,        \* the call's callbacks and calls, in order
    result,       \* the WorkflowResult the last call returned
    prevFailed,   \* per name: the step the previous call failed at, 0 if none
    ops,          \* operations the caller has made
    last,         \* what the caller's last observed call returned
    race,         \* two callers of execute_workflow on one workflow
    party         \* a run_party_mode session

vars == <<workflows, files, pc, call, trace, result, prevFailed, ops,
          last, race, party>>

NoCall == [name |-> Absent, index |-> 0, startIndex |-> 0,
           startStatus |-> Absent, resumeOf |-> 0]
NoResult == [status |-> Absent, failed_step |-> NoneInt, error |-> Absent]
WorkflowResult(status, failed_step, error) ==
    [status |-> status, failed_step |-> failed_step, error |-> error]

Ev(ev, n) == [ev |-> ev, n |-> n]

\* One observed call: the method, its key, its argument or the file it met,
\* and what it returned: a flag, a resume point, a state record or a StepResult.
NoLast == [op |-> Absent, key |-> Absent, arg |-> Absent, flag |-> FALSE,
           point |-> NoneInt, state |-> DefaultState, step |-> StepSuccess]
Observed(op, k) == [NoLast EXCEPT !.op = op, !.key = k]

\* No second caller and no party session.
NoRace == [writers |-> 0]
NoParty == [mode |-> Absent]

\* The step numbers _execute_step was called with in this call, in order.
Invoked == SelectSeq(trace, LAMBDA e : e.ev = "execute_step")

Init ==
    /\ workflows \in Registries
    /\ files = [k \in Keys |-> NoFile]
    /\ pc = "idle"
    /\ call = NoCall
    /\ trace = <<>>
    /\ result = NoResult
    /\ prevFailed = [k \in Keys |-> 0]
    /\ ops = 0
    /\ last = NoLast
    /\ race = NoRace
    /\ party = NoParty

CanCall == pc # "running" /\ ops < MaxOps

\* The not-found branch recording the failure in the store as well.
ExecuteNotFoundRecording(k) ==
    /\ CanCall
    /\ ~workflows[k].found
    /\ pc' = "returned"
    /\ call' = [NoCall EXCEPT !.name = k, !.resumeOf = prevFailed[k]]
    /\ trace' = <<Ev("on_error", 0)>>
    /\ result' = WorkflowResult("failed", NoneInt, "Workflow not found")
    /\ files' = MarkWorkflowFailed(files, k, "Workflow not found", NoneInt, "ok")
    /\ prevFailed' = [prevFailed EXCEPT ![k] = 0]
    /\ ops' = ops + 1
    /\ last' = NoLast
    /\ UNCHANGED <<workflows, race, party>>

\* load_workflow raises WorkflowNotFoundError: on_error, a failed result.
ExecuteNotFound(k) ==
    /\ CanCall
    /\ ~workflows[k].found
    /\ pc' = "returned"
    /\ call' = [NoCall EXCEPT !.name = k, !.resumeOf = prevFailed[k]]
    /\ trace' = <<Ev("on_error", 0)>>
    /\ result' = WorkflowResult("failed", NoneInt, "Workflow not found")
    /\ prevFailed' = [prevFailed EXCEPT ![k] = 0]
    /\ ops' = ops + 1
    /\ last' = NoLast
    /\ UNCHANGED <<workflows, files, race, party>>

\* load_workflow finds the directory and raises reading workflow.md or a step
\* file (_parse_frontmatter's read_text): no handler, the call raises.
ExecuteLoadRaises(k) ==
    /\ CanCall
    /\ workflows[k].found
    /\ pc' = "raised"
    /\ call' = [NoCall EXCEPT !.name = k, !.resumeOf = prevFailed[k]]
    /\ trace' = <<>>
    /\ result' = NoResult
    /\ prevFailed' = [prevFailed EXCEPT ![k] = 0]
    /\ ops' = ops + 1
    /\ last' = NoLast
    /\ UNCHANGED <<workflows, files, race, party>>

\* The definition loads: read the state, resume after the last completed step.
ExecuteStart(k) ==
    /\ CanCall
    /\ workflows[k].found
    /\ LET state == GetState(files, k)
           start_index == Len(state.stepsCompleted)
       IN call' = [name |-> k, index |-> start_index,
                   startIndex |-> start_index, startStatus |-> state.status,
                   resumeOf |-> prevFailed[k]]
    /\ pc' = "running"
    /\ trace' = <<>>
    /\ result' = NoResult
    /\ prevFailed' = [prevFailed EXCEPT ![k] = 0]
    /\ ops' = ops + 1
    /\ last' = NoLast
    /\ UNCHANGED <<workflows, files, race, party>>

\* An iteration that tells the observer the step is complete before the
\* state store is written, and that goes on to the next step after a failure.
LoopStepNotifyingFirst(o, w) ==
    /\ pc = "running"
    /\ call.index < Len(workflows[call.name].steps)
    /\ LET k == call.name
           step_num == call.index + 1
           step_name == workflows[k].steps[step_num]
           step_result == ExecuteStep(o)
           begun == trace \o <<Ev("on_step_start", step_num),
                               Ev("execute_step", step_num)>>
       IN IF step_result.raised
          THEN /\ w = "ok"
               /\ pc' = "raised"
               /\ trace' = begun
               /\ UNCHANGED <<files, call, result, prevFailed>>
          ELSE IF step_result.status = "failed"
          THEN /\ w = "ok"
               /\ trace' = Append(begun, Ev("on_error", step_num))
               /\ call' = [call EXCEPT !.index = @ + 1]
               /\ UNCHANGED <<files, pc, result, prevFailed>>
          ELSE /\ files' = MarkStepComplete(files, k, step_name, w)
               /\ call' = [call EXCEPT !.index = @ + 1]
               /\ trace' = begun \o <<Ev("on_step_complete", step_num),
                                      Ev("mark_step_complete", step_num)>>
               /\ UNCHANGED <<pc, result, prevFailed>>
    /\ UNCHANGED <<workflows, ops, race, party>>

\* An iteration that runs a failed step again instead of returning.
LoopStepRetrying(o, w) ==
    /\ pc = "running"
    /\ call.index < Len(workflows[call.name].steps)
    /\ LET k == call.name
           step_num == call.index + 1
           step_name == workflows[k].steps[step_num]
           step_result == ExecuteStep(o)
           begun == trace \o <<Ev("on_step_start", step_num),
                               Ev("execute_step", step_num)>>
       IN IF step_result.raised
          THEN /\ w = "ok"
               /\ pc' = "raised"
               /\ trace' = begun
               /\ UNCHANGED <<files, call, result, prevFailed>>
          ELSE IF step_result.status = "failed"
          THEN /\ w = "ok"
               /\ Len(trace) < 2 * MaxSteps
               /\ trace' = begun
               /\ UNCHANGED <<files, pc, call, result, prevFailed>>
          ELSE /\ files' = MarkStepComplete(files, k, step_name, w)
               /\ call' = [call EXCEPT !.index = @ + 1]
               /\ trace' = begun \o <<Ev("mark_step_complete", step_num),
                                      Ev("on_step_complete", step_num)>>
               /\ UNCHANGED <<pc, result, prevFailed>>
    /\ UNCHANGED <<workflows, ops, race, party>>

\* One iteration of the loop over workflow.steps[start_index:].
LoopStep(o, w) ==
    /\ pc = "running"
    /\ call.index < Len(workflows[call.name].steps)
    /\ LET k == call.name
           step_num == call.index + 1
           step_name == workflows[k].steps[step_num]
           step_result == ExecuteStep(o)
           begun == trace \o <<Ev("on_step_start", step_num),
                               Ev("execute_step", step_num)>>
       IN IF step_result.raised
          THEN /\ w = "ok"
               /\ pc' = "raised"
               /\ trace' = begun
               /\ UNCHANGED <<files, call, result, prevFailed>>
          ELSE IF step_result.status = "failed"
          THEN /\ w = "ok"
               /\ pc' = "returned"
               /\ trace' = Append(begun, Ev("on_error", step_num))
               /\ result' = WorkflowResult("failed", step_num, step_result.error)
               /\ prevFailed' = [prevFailed EXCEPT ![k] = step_num]
               /\ UNCHANGED <<files, call>>
          ELSE /\ files' = MarkStepComplete(files, k, step_name, w)
               /\ call' = [call EXCEPT !.index = @ + 1]
               /\ trace' = begun \o <<Ev("mark_step_complete", step_num),
                                      Ev("on_step_complete", step_num)>>
               /\ UNCHANGED <<pc, result, prevFailed>>
    /\ UNCHANGED <<workflows, ops, race, party>>

ExecuteLoopStep(o, w) == LoopStep(o, w) /\ UNCHANGED last

\* The same iteration, with what _execute_step returned noted.
ObservedLoopStep(o) ==
    /\ LoopStep(o, "ok")
    /\ last' = [Observed("_execute_step", call.name) EXCEPT
                    !.arg = o, !.step = ExecuteStep(o)]

\* What _collect_outputs can meet: it returns, or a declared output without
\* "path" or a failing stat raises.
CollectOutcomes == {"ok", "collect_raises"}

\* After the loop: mark_workflow_complete, _collect_outputs, the result.
ExecuteFinish(w, c) ==
    /\ pc = "running"
    /\ call.index >= Len(workflows[call.name].steps)
    /\ files' = MarkWorkflowComplete(files, call.name, w)
    /\ IF c = "collect_raises"
       THEN /\ pc' = "raised"
            /\ UNCHANGED <<trace, result>>
       ELSE /\ pc' = "returned"
            /\ trace' = Append(trace, Ev("on_workflow_complete", 0))
            /\ result' = WorkflowResult("success", NoneInt, Absent)
    /\ UNCHANGED <<workflows, call, prevFailed, ops, last, race, party>>

(***************************************************************************)
(* The state store called directly, between engine calls.                  *)
(***************************************************************************)
CanOperate == pc # "running" /\ ops < MaxOps

Errors == {"boom"}

\* The caller has moved on from the last engine call: its result and its
\* callbacks are behind it, and the record of k is no longer the one the last
\* call on k left.
Moved(k) ==
    /\ pc' = "idle"
    /\ call' = NoCall
    /\ trace' = <<>>
    /\ result' = NoResult
    /\ prevFailed' = [prevFailed EXCEPT ![k] = 0]
    /\ ops' = ops + 1
    /\ UNCHANGED <<workflows, race, party>>

Operated(k) == Moved(k) /\ last' = NoLast

StoreMarkStepComplete(k, s, w) ==
    /\ CanOperate
    /\ files' = MarkStepComplete(files, k, s, w)
    /\ Operated(k)

StoreMarkWorkflowComplete(k, w) ==
    /\ CanOperate
    /\ files' = MarkWorkflowComplete(files, k, w)
    /\ Operated(k)

StoreMarkWorkflowFailed(k, e, n, w) ==
    /\ CanOperate
    /\ files' = MarkWorkflowFailed(files, k, e, n, w)
    /\ Operated(k)

StoreResetWorkflow(k, r) ==
    /\ CanOperate
    /\ files' = ResetWorkflow(files, k, r)
    /\ Operated(k)

(***************************************************************************)
(* The state store called directly, the caller noting what comes back.     *)
(***************************************************************************)
ObservedResetWorkflow(k, r) ==
    /\ CanOperate
    /\ files' = ResetWorkflow(files, k, r)
    /\ last' = [Observed("reset_workflow", k) EXCEPT
                    !.arg = files[k].kind,
                    !.flag = ResetWorkflowFlag(files, k, r)]
    /\ Moved(k)

ObservedGetState(k) ==
    /\ CanOperate
    /\ last' = [Observed("get_state", k) EXCEPT
                    !.arg = files[k].kind, !.state = GetState(files, k)]
    /\ Moved(k)
    /\ UNCHANGED files

ObservedGetResumePoint(k) ==
    /\ CanOperate
    /\ last' = [Observed("get_resume_point", k) EXCEPT
                    !.point = GetResumePoint(files, k)]
    /\ Moved(k)
    /\ UNCHANGED files

ObservedCanResume(k) ==
    /\ CanOperate
    /\ last' = [Observed("can_resume", k) EXCEPT
                    !.flag = CanResume(files, k)]
    /\ Moved(k)
    /\ UNCHANGED files

(***************************************************************************)
(* Specifications.                                                         *)
(***************************************************************************)
\* The engine alone, one caller, every state-store write succeeding.
EngineNext ==
    \/ \E k \in Keys : ExecuteNotFound(k)
    \/ \E k \in Keys : ExecuteLoadRaises(k)
    \/ \E k \in Keys : ExecuteStart(k)
    \/ \E o \in StepOutcomes : ExecuteLoopStep(o, "ok")
    \/ \E c \in CollectOutcomes : ExecuteFinish("ok", c)

SpecEngine == Init /\ [][EngineNext]_vars

\* Engine calls and direct state-store operations in any order, one at a
\* time, and writes that may fail.
Next ==
    \/ \E k \in Keys : ExecuteNotFound(k)
    \/ \E k \in Keys : ExecuteLoadRaises(k)
    \/ \E k \in Keys : ExecuteStart(k)
    \/ \E o \in StepOutcomes, w \in WriteOutcomes : ExecuteLoopStep(o, w)
    \/ \E w \in WriteOutcomes, c \in CollectOutcomes : ExecuteFinish(w, c)
    \/ \E k \in Keys, s \in StepNames, w \in WriteOutcomes :
          StoreMarkStepComplete(k, s, w)
    \/ \E k \in Keys, w \in WriteOutcomes : StoreMarkWorkflowComplete(k, w)
    \/ \E k \in Keys, e \in Errors, n \in {NoneInt, 1}, w \in WriteOutcomes :
          StoreMarkWorkflowFailed(k, e, n, w)
    \/ \E k \in Keys, r \in ResetOutcomes : StoreResetWorkflow(k, r)

Spec == Init /\ [][Next]_vars

\* Engine calls whose writes succeed, direct state-store operations whose
\* writes may fail, and the caller noting what the executor, reset_workflow
\* and the three queries return.
ObservedNext ==
    \/ \E k \in Keys : ExecuteNotFound(k)
    \/ \E k \in Keys : ExecuteLoadRaises(k)
    \/ \E k \in Keys : ExecuteStart(k)
    \/ \E o \in StepOutcomes : ObservedLoopStep(o)
    \/ \E c \in CollectOutcomes : ExecuteFinish("ok", c)
    \/ \E k \in Keys, s \in StepNames, w \in WriteOutcomes :
          StoreMarkStepComplete(k, s, w)
    \/ \E k \in Keys, w \in WriteOutcomes : StoreMarkWorkflowComplete(k, w)
    \/ \E k \in Keys, e \in Errors, n \in {NoneInt, 1}, w \in WriteOutcomes :
          StoreMarkWorkflowFailed(k, e, n, w)
    \/ \E k \in Keys, r \in ResetOutcomes : ObservedResetWorkflow(k, r)
    \/ \E k \in Keys : ObservedGetState(k)
    \/ \E k \in Keys : ObservedGetResumePoint(k)
    \/ \E k \in Keys : ObservedCanResume(k)

SpecObserved == Init /\ [][ObservedNext]_vars

(***************************************************************************)
(* The state store called directly, the caller noting the key it used.     *)
(***************************************************************************)
KeyedMarkStepComplete(k, s, w) ==
    /\ CanOperate
    /\ files' = MarkStepComplete(files, k, s, w)
    /\ last' = [Observed("mark_step_complete", k) EXCEPT
                    !.flag = SaveStateFlag(w)]
    /\ Moved(k)

KeyedMarkWorkflowComplete(k, w) ==
    /\ CanOperate
    /\ files' = MarkWorkflowComplete(files, k, w)
    /\ last' = [Observed("mark_workflow_complete", k) EXCEPT
                    !.flag = SaveStateFlag(w)]
    /\ Moved(k)

KeyedMarkWorkflowFailed(k, e, n, w) ==
    /\ CanOperate
    /\ files' = MarkWorkflowFailed(files, k, e, n, w)
    /\ last' = [Observed("mark_workflow_failed", k) EXCEPT
                    !.flag = SaveStateFlag(w)]
    /\ Moved(k)

\* save_state(k, state) with a record the caller got from get_state(j).
KeyedSaveState(k, j, w) ==
    /\ CanOperate
    /\ files' = SaveState(files, k, GetState(files, j), w)
    /\ last' = [Observed("save_state", k) EXCEPT !.flag = SaveStateFlag(w)]
    /\ Moved(k)

\* Engine calls whose writes succeed and state-store operations whose writes
\* may fail, on any workflow name, in any order.
KeyedNext ==
    \/ \E k \in Keys : ExecuteNotFound(k)
    \/ \E k \in Keys : ExecuteLoadRaises(k)
    \/ \E k \in Keys : ExecuteStart(k)
    \/ \E o \in StepOutcomes : ExecuteLoopStep(o, "ok")
    \/ \E c \in CollectOutcomes : ExecuteFinish("ok", c)
    \/ \E k \in Keys, s \in StepNames, w \in WriteOutcomes :
          KeyedMarkStepComplete(k, s, w)
    \/ \E k \in Keys, w \in WriteOutcomes : KeyedMarkWorkflowComplete(k, w)
    \/ \E k \in Keys, e \in Errors, n \in {NoneInt, 1}, w \in WriteOutcomes :
          KeyedMarkWorkflowFailed(k, e, n, w)
    \/ \E k, j \in Keys, w \in WriteOutcomes : KeyedSaveState(k, j, w)
    \/ \E k \in Keys, r \in ResetOutcomes : ObservedResetWorkflow(k, r)

SpecKeyed == Init /\ [][KeyedNext]_vars

(***************************************************************************)
(* Two callers of execute_workflow on one workflow name, e.g. two          *)
(* processes on one project: nothing orders their reads and writes of the  *)
(* state file, so the calls interleave at each get_state and save_state.   *)
(***************************************************************************)
RaceKey == "w1"
Callers == {"c1", "c2"}

\* A caller: where its call is, the index of its loop, the record its
\* mark_* call has built and not saved yet, the steps it ran with success.
IdleCaller == [pc |-> "idle", index |-> 0, pending |-> DefaultState, done |-> {}]

\* writers: 1 when the callers take turns (a call begins only when no other
\* is running), 2 when they do not.  recorded: the names a stored
\* stepsCompleted has held so far.  twice: a caller has invoked a step that
\* the other had already run with success.
InitRace ==
    /\ workflows \in {reg \in Registries : reg[RaceKey].found}
    /\ files = [k \in Keys |-> NoFile]
    /\ pc = "idle"
    /\ call = NoCall
    /\ trace = <<>>
    /\ result = NoResult
    /\ prevFailed = [k \in Keys |-> 0]
    /\ ops = 0
    /\ last = NoLast
    /\ party = NoParty
    /\ race \in {[writers |-> n, callers |-> [c \in Callers |-> IdleCaller],
                   recorded |-> {}, twice |-> FALSE] : n \in {1, 2}}

RaceOnly ==
    UNCHANGED <<workflows, pc, call, trace, result, prevFailed, ops, last, party>>

Ended(c) == race.callers[c].pc \in {"idle", "returned", "raised"}

RaceSteps == workflows[RaceKey].steps

LoadOutcomes == {"ok", "load_raises"}

\* load_workflow, get_state, start_index.
RaceStart(c, l) ==
    /\ race.callers[c].pc = "idle"
    /\ race.writers = 1 => \A d \in Callers \ {c} : Ended(d)
    /\ race' = [race EXCEPT
                   !.callers[c].pc = IF l = "ok" THEN "loop" ELSE "raised",
                   !.callers[c].index =
                       Len(GetState(files, RaceKey).stepsCompleted)]
    /\ UNCHANGED files
    /\ RaceOnly

\* on_step_start and _execute_step of the next step.
RaceInvoke(c, o) ==
    /\ race.callers[c].pc = "loop"
    /\ race.callers[c].index < Len(RaceSteps)
    /\ LET step_num == race.callers[c].index + 1
           step_result == ExecuteStep(o)
           again == \E d \in Callers \ {c} : step_num \in race.callers[d].done
       IN race' = [race EXCEPT
                     !.twice = @ \/ again,
                     !.callers[c].pc =
                         IF step_result.raised THEN "raised"
                         ELSE IF step_result.status = "failed" THEN "returned"
                         ELSE "marking",
                     !.callers[c].done =
                         IF step_result.status = "success"
                         THEN @ \cup {step_num} ELSE @]
    /\ UNCHANGED files
    /\ RaceOnly

\* mark_step_complete up to its save_state: get_state and the new record.
RaceMarkRead(c) ==
    /\ race.callers[c].pc = "marking"
    /\ race' = [race EXCEPT
                   !.callers[c].pc = "saving",
                   !.callers[c].pending =
                       StepCompletedRecord(GetState(files, RaceKey),
                           RaceSteps[race.callers[c].index + 1])]
    /\ UNCHANGED files
    /\ RaceOnly

\* The save_state of mark_step_complete, on_step_complete, the next index.
RaceMarkWrite(c) ==
    /\ race.callers[c].pc = "saving"
    /\ files' = SaveState(files, RaceKey, race.callers[c].pending, "ok")
    /\ race' = [race EXCEPT
                   !.callers[c].pc = "loop",
                   !.callers[c].index = @ + 1,
                   !.callers[c].pending = DefaultState,
                   !.recorded = @ \cup
                       {race.callers[c].pending.stepsCompleted[j] :
                          j \in 1..Len(race.callers[c].pending.stepsCompleted)}]
    /\ RaceOnly

\* mark_workflow_complete up to its save_state.
RaceCompleteRead(c) ==
    /\ race.callers[c].pc = "loop"
    /\ race.callers[c].index >= Len(RaceSteps)
    /\ race' = [race EXCEPT
                   !.callers[c].pc = "completing",
                   !.callers[c].pending =
                       WorkflowCompletedRecord(GetState(files, RaceKey))]
    /\ UNCHANGED files
    /\ RaceOnly

\* The save_state of mark_workflow_complete, _collect_outputs, the result.
RaceCompleteWrite(c, o) ==
    /\ race.callers[c].pc = "completing"
    /\ files' = SaveState(files, RaceKey, race.callers[c].pending, "ok")
    /\ race' = [race EXCEPT
                   !.callers[c].pc =
                       IF o = "collect_raises" THEN "raised" ELSE "returned",
                   !.callers[c].pending = DefaultState]
    /\ RaceOnly

RaceNext ==
    \/ \E c \in Callers, l \in LoadOutcomes : RaceStart(c, l)
    \/ \E c \in Callers, o \in StepOutcomes : RaceInvoke(c, o)
    \/ \E c \in Callers : RaceMarkRead(c)
    \/ \E c \in Callers : RaceMarkWrite(c)
    \/ \E c \in Callers : RaceCompleteRead(c)
    \/ \E c \in Callers, o \in CollectOutcomes : RaceCompleteWrite(c, o)

SpecRace == InitRace /\ [][RaceNext]_vars

(***************************************************************************)
(* Party mode: MultiAgentOrchestrator.run_party_mode.                      *)
(***************************************************************************)
\* The number of history entries rendered into a participant's context.
HistoryWindow == 10

\* The slice history[:10]: the oldest entries instead of the latest.
FirstOf(s, n) == IF Len(s) <= n THEN s ELSE SubSeq(s, 1, n)

LastOf(s, n) == IF Len(s) <= n THEN s ELSE SubSeq(s, Len(s) - n + 1, Len(s))

\* The cap on the content of a contribution: a longer response keeps its
\* first ContentKept characters, followed by the ContentMarker characters "...".
ContentCap == 500
ContentKept == 497
ContentMarker == 3

\* The characters of the placeholder around the error text,
\* "{name} ({role}): Unable to contribute (error: {e})", and those of the
\* name and role of a persona ("John", "Product Manager").
PlaceholderFrame == 35
PersonaText == 19

\* Lengths of the text a session returns, and of the text of an exception.
ResponseLengths == {500, 501}
ErrorLengths == {20, 480}

\* content = response_text.strip(), cut when longer than the cap.
CappedLength(n) == IF n > ContentCap THEN ContentKept + ContentMarker ELSE n

\* The content of the placeholder of the except branch.
PlaceholderLength(e) == PersonaText + PlaceholderFrame + e

\* An AgentContribution: the position of its agent in agent_types, its
\* round, and whether the content is the agent's (ok) or the placeholder.
Contribution(agent, round_num, ok) ==
    [agent |-> agent, round_num |-> round_num, ok |-> ok]

\* The history rendered into an invocation: for which agent, in which round.
NoContext == [agent |-> 0, round_num |-> 0, shown |-> <<>>]

\* What _get_agent_contribution can meet before its try block: spec_dir is
\* created, or mkdir raises.
PrepareOutcomes == {"ok", "mkdir_raises"}

\* What its try block can meet: the session returns, or the client or the
\* session raises.
SessionOutcomes == {"ok", "session_raises"}

ContentLengths(o) == IF o = "ok" THEN ResponseLengths ELSE ErrorLengths

Modes == {"round-robin", "free-form"}

\* A session as run_party_mode begins: n agents, the number of rounds.
\* discussion_history is the list of run_party_mode, contributions the list
\* of the round in progress; produced holds every contribution made, once.
\* inflight: the agents whose session is
\* awaited; results: what the tasks of a free-form round have returned;
\* invoked: the calls of _get_agent_contribution and _synthesize_discussion
\* so far; stored: the length of the content of the last contribution made.
PartySession(mode, n, rounds) ==
    [mode |-> mode, agents |-> n, rounds |-> rounds, pc |-> "rounds",
     round_num |-> 1, turn |-> 1, discussion_history |-> <<>>,
     contributions |-> <<>>, produced |-> {}, context |-> NoContext,
     failures |-> 0, synthesis |-> Absent, inflight |-> {},
     results |-> {}, invoked |-> 0, stored |-> 0, status |-> Absent]

InitParty ==
    /\ workflows = [k \in Keys |-> [found |-> FALSE, steps |-> <<>>]]
    /\ files = [k \in Keys |-> NoFile]
    /\ pc = "idle"
    /\ call = NoCall
    /\ trace = <<>>
    /\ result = NoResult
    /\ prevFailed = [k \in Keys |-> 0]
    /\ ops = 0
    /\ last = NoLast
    /\ race = NoRace
    /\ party \in {PartySession(mode, n, rounds) :
                     mode \in Modes, n \in 1..MaxAgents,
                     rounds \in 1..MaxRounds}

PartyOnly ==
    UNCHANGED <<workflows, files, pc, call, trace, result, prevFailed, ops,
                last, race>>

\* _get_agent_contribution up to its await: the context is rendered from the
\* last entries of history, spec_dir is created, the session is started.
Invoking(p, k, m) ==
    [p EXCEPT
       !.context = [agent |-> k, round_num |-> p.round_num,
                    shown |-> LastOf(p.discussion_history, HistoryWindow)],
       !.invoked = @ + 1,
       !.pc = IF m = "mkdir_raises" THEN "raised" ELSE @,
       !.inflight = IF m = "mkdir_raises" THEN @ ELSE @ \cup {k}]

\* _get_agent_contribution without its except branch: the exception of a
\* failing session leaves run_party_mode.
ContributingRaising(p, k, o, n) ==
    [p EXCEPT
       !.produced = IF o = "ok"
                    THEN @ \cup {Contribution(k, p.round_num, TRUE)} ELSE @,
       !.failures = IF o = "ok" THEN @ ELSE @ + 1,
       !.stored = IF o = "ok" THEN CappedLength(n) ELSE @,
       !.pc = IF o = "ok" THEN @ ELSE "raised",
       !.inflight = @ \ {k}]

\* _get_agent_contribution from the return of its session: the contribution
\* of agent k, the agent's content or the placeholder of the except branch.
Contributing(p, k, o, n) ==
    [p EXCEPT
       !.produced = @ \cup {Contribution(k, p.round_num, o = "ok")},
       !.failures = IF o = "ok" THEN @ ELSE @ + 1,
       !.stored = IF o = "ok" THEN CappedLength(n) ELSE PlaceholderLength(n),
       !.inflight = @ \ {k}]

\* run_party_mode with _synthesize_discussion called inside the loop over the
\* rounds: the first round is followed by the synthesis.
RoundDoneSynthesizing(p, round_outputs) ==
    [p EXCEPT
       !.discussion_history = @ \o round_outputs,
       !.contributions = <<>>,
       !.results = {},
       !.turn = 1,
       !.round_num = @ + 1,
       !.pc = "synthesis",
       !.invoked = @ + 1]

\* run_party_mode after a round: discussion_history.extend(round_outputs),
\* then the next round, or _synthesize_discussion up to its await.
RoundDone(p, round_outputs) ==
    [p EXCEPT
       !.discussion_history = @ \o round_outputs,
       !.contributions = <<>>,
       !.results = {},
       !.turn = 1,
       !.round_num = @ + 1,
       !.pc = IF p.round_num = p.rounds THEN "synthesis" ELSE @,
       !.invoked = IF p.round_num = p.rounds THEN @ + 1 ELSE @]

\* An iteration of _run_round_robin that starts the invocation as a task and
\* goes on to the next agent without awaiting it.
RoundRobinInvokeDetached(m) ==
    /\ party.pc = "rounds"
    /\ party.mode = "round-robin"
    /\ party.turn \notin party.inflight
    /\ party' = [Invoking(party, party.turn, m) EXCEPT
                    !.turn = IF @ < party.agents THEN @ + 1 ELSE @]
    /\ PartyOnly

\* One iteration of _run_round_robin up to its await: the agent at position
\* turn is given the history.
RoundRobinInvoke(m) ==
    /\ party.pc = "rounds"
    /\ party.mode = "round-robin"
    /\ party.inflight = {}
    /\ party' = Invoking(party, party.turn, m)
    /\ PartyOnly

\* The rest of the iteration: the contribution is appended to contributions
\* and to history (the list run_party_mode passed, discussion_history itself);
\* after the last agent the round is done.
RoundRobinReturn(o, n) ==
    /\ party.pc = "rounds"
    /\ party.mode = "round-robin"
    /\ party.inflight = {party.turn}
    /\ o = "session_raises" => party.failures < MaxFailures
    /\ LET k == party.turn
           contribution == Contribution(k, party.round_num, o = "ok")
           appended == [Contributing(party, k, o, n) EXCEPT
                          !.contributions = Append(@, contribution),
                          !.discussion_history = Append(@, contribution)]
       IN party' = IF k = party.agents
                   THEN RoundDone(appended, appended.contributions)
                   ELSE [appended EXCEPT !.turn = @ + 1]
    /\ PartyOnly

\* The results of asyncio.gather: those of the tasks in the order of the
\* tasks, which is the order of agent_types.
InRoleOrder(results, n) ==
    [i \in 1..n |-> CHOOSE c \in results : c.agent = i]

\* A task of _run_free_form begins, in the order of agent_types: the agent is
\* given the history; if mkdir raises, gather hands the exception on.
FreeFormStart(m) ==
    /\ party.pc = "rounds"
    /\ party.mode = "free-form"
    /\ party.turn <= party.agents
    /\ party' = [Invoking(party, party.turn, m) EXCEPT !.turn = @ + 1]
    /\ PartyOnly

\* A task of _run_free_form appending its contribution to history as soon as
\* its session returns, as _run_round_robin does.
FreeFormReturnSharing(k, o, n) ==
    /\ party.pc = "rounds"
    /\ party.mode = "free-form"
    /\ k \in party.inflight
    /\ o = "session_raises" => party.failures < MaxFailures
    /\ LET contribution == Contribution(k, party.round_num, o = "ok")
           returned == [Contributing(party, k, o, n) EXCEPT
                          !.results = @ \cup {contribution},
                          !.discussion_history = Append(@, contribution)]
       IN party' = IF returned.inflight = {} /\ party.turn > party.agents
                   THEN RoundDone(returned, <<>>)
                   ELSE returned
    /\ PartyOnly

\* _run_free_form returning with the first task that finishes, as
\* asyncio.wait(tasks, return_when=FIRST_COMPLETED) would.
FreeFormReturnFirst(k, o, n) ==
    /\ party.pc = "rounds"
    /\ party.mode = "free-form"
    /\ k \in party.inflight
    /\ o = "session_raises" => party.failures < MaxFailures
    /\ LET contribution == Contribution(k, party.round_num, o = "ok")
           returned == [Contributing(party, k, o, n) EXCEPT
                          !.results = @ \cup {contribution}]
       IN party' = RoundDone(returned, <<contribution>>)
    /\ PartyOnly

\* The session of a task returns, in any order; when it is the last one of
\* the round, gather returns and the round is done.
FreeFormReturn(k, o, n) ==
    /\ party.pc = "rounds"
    /\ party.mode = "free-form"
    /\ k \in party.inflight
    /\ o = "session_raises" => party.failures < MaxFailures
    /\ LET contribution == Contribution(k, party.round_num, o = "ok")
           returned == [Contributing(party, k, o, n) EXCEPT
                          !.results = @ \cup {contribution}]
       IN party' = IF returned.inflight = {} /\ party.turn > party.agents
                   THEN RoundDone(returned,
                                  InRoleOrder(returned.results, party.agents))
                   ELSE returned
    /\ PartyOnly

\* _synthesize_discussion without its except branch: the exception of the
\* synthesis session leaves run_party_mode and no result is made.
SynthesizeRaising(o) ==
    /\ party.pc = "synthesis"
    /\ party' = [party EXCEPT
                    !.pc = IF o = "ok" THEN "returned" ELSE "raised",
                    !.synthesis = IF o = "ok" THEN "ai" ELSE @,
                    !.status = IF o = "ok" THEN "success" ELSE @]
    /\ PartyOnly

\* _synthesize_discussion from the return of its session: the text of the
\* session, or the basic summary when the try block raised; the result.
Synthesize(o) ==
    /\ party.pc = "synthesis"
    /\ party' = [party EXCEPT
                    !.pc = "returned",
                    !.synthesis = IF o = "ok" THEN "ai" ELSE "basic",
                    !.status = "success"]
    /\ PartyOnly

PartyNext ==
    \/ \E m \in PrepareOutcomes : RoundRobinInvoke(m)
    \/ \E o \in SessionOutcomes : \E n \in ContentLengths(o) :
          RoundRobinReturn(o, n)
    \/ \E m \in PrepareOutcomes : FreeFormStart(m)
    \/ \E k \in 1..MaxAgents, o \in SessionOutcomes :
          \E n \in ContentLengths(o) : FreeFormReturn(k, o, n)
    \/ \E o \in SessionOutcomes : Synthesize(o)

SpecParty == InitParty /\ [][PartyNext]_vars

\* The same sessions under the scheduling of the event loop: a step that can
\* be taken (a task to start, a session to return or raise, the synthesis to
\* end) is taken in the end.
SpecPartyFair == InitParty /\ [][PartyNext]_vars /\ WF_vars(PartyNext)

(***************************************************************************)
(* Properties.                                                             *)
(***************************************************************************)
\* The record get_state returns for the workflow of the last call.
CallState == GetState(files, call.name)

\* The last call returned a result that says a step failed.
StepFailureReturned ==
    pc = "returned" /\ result.status = "failed" /\ result.failed_step # NoneInt

\* reset_workflow is the only operation that removes a state file.
IsReset(k) == files[k].kind # "absent" /\ files'[k].kind = "absent"

\* This step begins an execute_workflow call on k.
CallBegins(k) ==
    pc # "running" /\ pc' # "idle" /\ call'.name = k /\ ops' = ops + 1

\* C1. Resumability: when the previous call on the same workflow failed at
\* step k and the stored record was not touched since, the call invokes step k
\* first and none of the steps before it.
C1_ResumesAtFailedStep ==
    call.resumeOf # 0 =>
        /\ \A j \in 1..Len(Invoked) : Invoked[j].n >= call.resumeOf
        /\ Len(Invoked) > 0 => Invoked[1].n = call.resumeOf
        /\ pc = "returned" => Len(Invoked) > 0

\* C2. When a step fails, the call returns with the failure stored: status
\* failed, lastError the step's error, failedAtStep the failed step.
C2_FailurePersisted ==
    StepFailureReturned =>
        /\ CallState.status = "failed"
        /\ CallState.lastError = result.error
        /\ CallState.failedAtStep = result.failed_step

\* C3. A call that returns failed at step k leaves stepsCompleted equal to the
\* names of the steps before k, which succeeded; the failed step is not added
\* and the list is not cleared.
C3_CompletedAreStepsBeforeFailure ==
    StepFailureReturned =>
        CallState.stepsCompleted =
            SubSeq(workflows[call.name].steps, 1, result.failed_step - 1)

\* C4. Vacuous re-run: a call on a workflow whose stored status is completed
\* invokes no step and returns success.
C4_CompletedRerunInvokesNothing ==
    call.startStatus = "completed" =>
        /\ Len(Invoked) = 0
        /\ pc = "returned" => result.status = "success"

\* C5. Idempotent completion: marking a step that is already in stepsCompleted
\* leaves the list as it is, and no stored list holds a name twice.
C5_NoStepTwice ==
    \A k \in Keys :
        LET state == GetState(files, k)
        IN /\ NoDuplicates(state.stepsCompleted)
           /\ \A s \in StepNames :
                 InSeq(s, state.stepsCompleted) =>
                     /\ StepCompletedRecord(state, s).stepsCompleted
                            = state.stepsCompleted
                     /\ GetState(MarkStepComplete(files, k, s, "ok"), k)
                            .stepsCompleted = state.stepsCompleted

\* A step whose name is already recorded has been marked complete again: the
\* second of two steps with one name, and the list holds the name once.
C5_Witness ==
    /\ pc = "running"
    /\ call.index = 2
    /\ Len(workflows[call.name].steps) >= 2
    /\ workflows[call.name].steps[1] = workflows[call.name].steps[2]
    /\ CallState.stepsCompleted = <<"a">>

\* C6. Every record get_state returns has currentStep = len(stepsCompleted),
\* the default record of an absent or unreadable file included.
C6_CurrentStepIsLength ==
    \A k \in Keys :
        GetState(files, k).currentStep = Len(GetState(files, k).stepsCompleted)

\* One file is unreadable and another records two steps and a failure.
C6_Witness ==
    \E k, u \in Keys :
        /\ files[u].kind = "corrupt"
        /\ files[k].kind = "json"
        /\ files[k].data.currentStep = 2
        /\ files[k].data.status = "failed"

\* C7. The stored status changes only not_started -> in_progress,
\* in_progress -> completed and in_progress -> failed, reset apart.
C7_StatusTransitions ==
    [][\A k \in Keys :
          LET s == GetState(files, k).status
              t == GetState(files', k).status
          IN (s # t /\ ~IsReset(k)) =>
                 <<s, t>> \in {<<"not_started", "in_progress">>,
                               <<"in_progress", "completed">>,
                               <<"in_progress", "failed">>}]_vars

\* C8. stepsCompleted never shrinks: over every step other than a reset the
\* list read before is a prefix of the list read after.
C8_StepsCompletedGrows ==
    [][\A k \in Keys :
          ~IsReset(k) =>
              IsPrefix(GetState(files, k).stepsCompleted,
                       GetState(files', k).stepsCompleted)]_vars

\* C9. A call on a workflow whose definition is not found returns failed with
\* the not-found error, emits on_error and nothing else, invokes no step and
\* leaves every state file as it was.
C9_NotFoundLeavesStore ==
    [][\A k \in Keys :
          (CallBegins(k) /\ ~workflows[k].found) =>
              /\ pc' = "returned"
              /\ result' = WorkflowResult("failed", NoneInt, "Workflow not found")
              /\ trace' = <<Ev("on_error", 0)>>
              /\ files' = files]_vars

\* A call on a workflow that is not found has returned, and the workflow has
\* a stored record.
C9_Witness ==
    /\ pc = "returned"
    /\ result.error = "Workflow not found"
    /\ files[call.name].kind = "json"
    /\ files[call.name].data.status # "not_started"

\* C10. execute_workflow never raises to its caller.
C10_NeverRaises == pc # "raised"

\* The last event of the running call, when it has emitted one.
LastEvent == trace[Len(trace)]

\* The events of the call named ev, in order.
Emitted(ev) == SelectSeq(trace, LAMBDA e : e.ev = ev)

\* C12. When on_step_complete has just been emitted for a step, the store
\* already records the step: its name is in stepsCompleted, currentStep is the
\* length of the list, the status is in_progress and startedAt is set.
C12_StepRecordedBeforeCallback ==
    (pc = "running" /\ Len(trace) > 0 /\ LastEvent.ev = "on_step_complete") =>
        /\ InSeq(workflows[call.name].steps[LastEvent.n],
                 CallState.stepsCompleted)
        /\ CallState.currentStep = Len(CallState.stepsCompleted)
        /\ CallState.status = "in_progress"
        /\ CallState.startedAt

\* C13. A call returns success only after every remaining step was invoked and
\* completed; the stored record is then completed with completedAt set, and
\* on_workflow_complete was emitted once, as the last event, after the last
\* on_step_complete.
C13_SuccessMeansCompleted ==
    (pc = "returned" /\ result.status = "success") =>
        LET steps == workflows[call.name].steps
            remaining == {n \in 1..Len(steps) : n > call.startIndex}
        IN /\ \A n \in remaining :
                  /\ Ev("execute_step", n) \in {Invoked[i] : i \in DOMAIN Invoked}
                  /\ \E i \in DOMAIN trace : trace[i] = Ev("on_step_complete", n)
           /\ CallState.status = "completed"
           /\ CallState.completedAt
           /\ Len(Emitted("on_workflow_complete")) = 1
           /\ LastEvent.ev = "on_workflow_complete"

\* C14. Step i+1 of a call gets its on_step_start only when the name of step
\* i, which the call has just run, is in the stored stepsCompleted, whatever
\* the state-store writes reported.
C14_NextStepAfterStored ==
    [][(/\ pc = "running"
        /\ call.index > call.startIndex
        /\ Len(trace') > Len(trace)
        /\ trace'[Len(trace) + 1].ev = "on_step_start") =>
           InSeq(workflows[call.name].steps[call.index],
                 CallState.stepsCompleted)]_vars

\* C15. A call on a workflow whose stored status is completed emits no
\* on_step_start and no on_step_complete, and leaves status, stepsCompleted
\* and currentStep as they were when it began.
C15_CompletedRerunChangesNothing ==
    (pc = "returned" /\ call.startStatus = "completed") =>
        /\ Len(Emitted("on_step_start")) = 0
        /\ Len(Emitted("on_step_complete")) = 0
        /\ CallState.status = "completed"
        /\ Len(CallState.stepsCompleted) = call.startIndex
        /\ CallState.currentStep = call.startIndex

\* This step is the observed call of method op on k.
Calls(op, k) == ops' = ops + 1 /\ last'.op = op /\ last'.key = k

\* The record get_state hands out for a file that is absent or unreadable.
IsDefault(state) ==
    /\ state.status = "not_started"
    /\ state.stepsCompleted = <<>>
    /\ state.currentStep = 0

\* C11. _execute_step returns success exactly when the agent session returns
\* "complete" or "continue"; in every other case it returns a failed result
\* that carries an error text, and it never raises.
C11_ExecutorResult ==
    last.op = "_execute_step" =>
        /\ ~last.step.raised
        /\ last.step.status = "success" <=> last.arg \in {"complete", "continue"}
        /\ last.step.status # "success" =>
               last.step.status = "failed" /\ last.step.error # Absent

\* C16, as the claim states it: every reset_workflow leaves the key without a
\* record, so that get_state returns the default record, and reports success.
C16_ResetDeletes ==
    [][\A k \in Keys :
          Calls("reset_workflow", k) =>
              /\ files'[k].kind = "absent"
              /\ IsDefault(GetState(files', k))
              /\ last'.flag]_vars

\* C16. A reset_workflow that reports success leaves the key without a record,
\* whatever the file held, so that get_state returns the default record; one
\* that reports failure (unlink raised) leaves the file as it was.  On a key
\* without a file it changes nothing and reports success, so a second reset
\* after a successful one changes nothing.  No other key is touched.
C16_ResetReportingSuccess ==
    [][\A k \in Keys :
          Calls("reset_workflow", k) =>
              /\ last'.flag =>
                     /\ files'[k].kind = "absent"
                     /\ IsDefault(GetState(files', k))
                     /\ ResetWorkflow(files', k, "ok") = files'
                     /\ ResetWorkflowFlag(files', k, "ok")
              /\ ~last'.flag => files' = files
              /\ files[k].kind = "absent" => last'.flag /\ files' = files
              /\ \A j \in Keys \ {k} : files'[j] = files[j]]_vars

\* reset_workflow has reported success on a key that had a file.
C16_Witness ==
    /\ last.op = "reset_workflow"
    /\ last.arg # "absent"
    /\ last.flag
    /\ files[last.key].kind = "absent"

\* C17. get_state returns without raising and without touching the files: the
\* stored record when the file is readable, the default record when it is
\* absent or unreadable.  A call of execute_workflow that finds the file
\* unreadable starts at index 0, and the first step it invokes is step 1.
C17_GetStateTotal ==
    [][\A k \in Keys :
          /\ Calls("get_state", k) =>
                 /\ pc' = "idle"
                 /\ files' = files
                 /\ files[k].kind = "json" => last'.state = files[k].data
                 /\ files[k].kind # "json" => IsDefault(last'.state)
          /\ (CallBegins(k) /\ pc' = "running" /\ files[k].kind = "corrupt") =>
                 call'.index = 0
          /\ (pc = "running" /\ call.name = k /\ call.startIndex = 0
                /\ Len(Invoked) = 0 /\ Len(Invoked') > 0) =>
                 Invoked'[1] = Ev("execute_step", 1)]_vars

\* A call that found the state file unreadable has invoked step 1, which
\* failed, so the file is still the unreadable one.
C17_Witness ==
    /\ pc = "returned"
    /\ files[call.name].kind = "corrupt"
    /\ Invoked = <<Ev("execute_step", 1)>>

\* C18. can_resume returns true exactly when the stored status is in_progress;
\* get_resume_point returns None when it is completed and currentStep
\* otherwise, and a call of execute_workflow that follows on the same key
\* starts at that index; neither query changes a file.
C18_ResumeQueries ==
    [][\A k \in Keys :
          /\ Calls("can_resume", k) =>
                 /\ files' = files
                 /\ last'.flag <=> GetState(files, k).status = "in_progress"
          /\ Calls("get_resume_point", k) =>
                 /\ files' = files
                 /\ last'.point =
                        IF GetState(files, k).status = "completed"
                        THEN NoneInt ELSE GetState(files, k).currentStep
          /\ (/\ last.op = "get_resume_point" /\ last.key = k
              /\ last.point # NoneInt
              /\ CallBegins(k) /\ pc' = "running") =>
                 call'.index = last.point]_vars

\* get_resume_point has returned a step index past the first for a workflow
\* that can be executed.
C18_Witness ==
    /\ last.op = "get_resume_point"
    /\ last.point >= 1
    /\ workflows[last.key].found

\* A name that a stored stepsCompleted held is no longer in it.
RaceLost ==
    \E s \in race.recorded :
        ~InSeq(s, GetState(files, RaceKey).stepsCompleted)

\* C19. With a single writer per key (the calls on one name take turns) no
\* recorded step completion is lost and no call invokes a step that another
\* call has already run with success.
C19_SingleWriterKeepsProgress ==
    race.writers = 1 => ~RaceLost /\ ~race.twice

\* Two calls that do not take turns on a workflow whose step names differ:
\* a name that was stored is gone from stepsCompleted.
C19_RaceLosesCompletion ==
    race.writers = 2 /\ NoDuplicates(RaceSteps) /\ RaceLost

\* Two calls that do not take turns: both have run the same step.
C19_RaceInvokesTwice ==
    race.writers = 2 /\ NoDuplicates(RaceSteps) /\ race.twice

\* c comes before d in the order of a discussion: by round, then by the
\* position of the agent in agent_types.
Before(c, d) ==
    \/ c.round_num < d.round_num
    \/ c.round_num = d.round_num /\ c.agent < d.agent

\* The contributions of a set, each once, in the order of the discussion.
RECURSIVE InOrder(_)
InOrder(S) ==
    IF S = {} THEN <<>>
    ELSE LET first == CHOOSE c \in S : \A d \in S \ {c} : Before(c, d)
         IN <<first>> \o InOrder(S \ {first})

\* The contributions made before the invocation whose context is noted: those
\* of earlier rounds and those of earlier agents of its round, each once.
Visible == InOrder({c \in party.produced : Before(c, party.context)})

\* C20. In round-robin mode the history rendered into the invocation of agent
\* k in round r is the contributions of agents 1..k-1 of round r and of all
\* agents of the rounds before r, in order, limited to the last 10.
C20_RoundRobinVisibility ==
    (party.mode = "round-robin" /\ party.context.agent > 0) =>
        party.context.shown = LastOf(Visible, HistoryWindow)

\* The contributions of the rounds before round r, in order.
BeforeRound(r) == InOrder({c \in party.produced : c.round_num < r})

\* C21. In free-form mode the history rendered into an invocation of round r
\* is the history as it stood at the end of round r-1 (its last 10 entries),
\* the same for every invocation of the round: it holds no contribution of
\* round r, in whatever order the sessions of the round return.
C21_FreeFormIsolation ==
    (party.mode = "free-form" /\ party.context.agent > 0) =>
        /\ party.context.shown =
               LastOf(BeforeRound(party.context.round_num), HistoryWindow)
        /\ \A i \in 1..Len(party.context.shown) :
               party.context.shown[i].round_num < party.context.round_num

\* In round 2 of a free-form session the second agent is invoked after the
\* first agent's session of that round has returned.
C21_Witness ==
    /\ party.mode = "free-form"
    /\ party.context.round_num = 2
    /\ party.context.agent = 2
    /\ party.round_num = 2
    /\ \E c \in party.results : c.agent = 1
    /\ Len(party.context.shown) > 0

\* Agent a's invocation of round r has returned.
Returned(a, r) == \E c \in party.produced : c.agent = a /\ c.round_num = r

\* C22. In free-form mode a round is joined in full: the session is past
\* round r (its round counter moved on, or an invocation of a later round
\* started) only when every agent's invocation of round r has returned, and
\* nothing of a round after the current one has been invoked or recorded.
C22_RoundJoin ==
    party.mode = "free-form" =>
        /\ \A r \in 1..MaxRounds : \A a \in 1..party.agents :
               (r < party.round_num \/ r < party.context.round_num)
                   => Returned(a, r)
        /\ party.context.round_num <= party.round_num
        /\ \A c \in party.produced : c.round_num <= party.round_num
        /\ party.inflight # {} => party.context.round_num = party.round_num

\* A free-form session of three agents has started an invocation of round 2,
\* while still waiting for it.
C22_Witness ==
    /\ party.mode = "free-form"
    /\ party.agents >= 3
    /\ party.context.round_num = 2
    /\ party.inflight # {}
    /\ \A a \in 1..party.agents : Returned(a, 1)

\* The contributions made before the invocation whose context is noted, in
\* order, each once: in round-robin mode all that came before it, in free-form
\* mode those of the rounds before its own.
Prior ==
    IF party.mode = "round-robin" THEN Visible
    ELSE BeforeRound(party.context.round_num)

\* The contributions rendered into the noted context.
Shown == {party.context.shown[i] : i \in 1..Len(party.context.shown)}

\* C23. In both modes the context of an invocation renders at most 10 history
\* entries, and the contributions rendered are the most recent ones: each is
\* one of the 10 latest prior contributions, none is rendered while a later
\* one is left out, and the latest one is rendered whenever there is one.
C23_BoundedHistory ==
    party.context.agent > 0 =>
        LET prior == Prior
            shown == Shown
        IN /\ Len(party.context.shown) <= HistoryWindow
           /\ \A i \in 1..Len(prior) :
                  prior[i] \in shown =>
                      /\ i > Len(prior) - HistoryWindow
                      /\ \A j \in i..Len(prior) : prior[j] \in shown
           /\ shown \subseteq {prior[i] : i \in 1..Len(prior)}
           /\ prior # <<>> => prior[Len(prior)] \in shown

\* Invocation 16 of a round-robin session, after 15 contributions: its
\* context is full and leaves the oldest contributions out.
C23_Witness ==
    /\ party.mode = "round-robin"
    /\ party.invoked = 16
    /\ Len(Prior) = 15
    /\ Len(party.context.shown) = HistoryWindow
    /\ Prior[1] \notin Shown

\* The contribution c is an entry of the history of the session p.
Recorded(p, c) ==
    \E i \in 1..Len(p.discussion_history) : p.discussion_history[i] = c

\* Every agent has an entry in the history of p for each of its rounds.
AllRecorded(p) ==
    \A a \in 1..p.agents : \A q \in 1..p.rounds :
        \E c \in p.produced :
            c.agent = a /\ c.round_num = q /\ Recorded(p, c)

\* C24. When the session of a participant raises, in either mode, a
\* placeholder contribution of that participant is made for the round and is
\* in the history once the round is over (in round-robin mode at once), the
\* other invocations of the round go on (those in flight stay in flight, the
\* next agent of a round-robin round has the turn), the session does not
\* raise, and a session that reaches synthesis or returns has an entry of
\* every participant for every round.
C24_FailureContained ==
    [][/\ party'.failures > party.failures =>
            \E k \in party.inflight :
               LET placeholder == Contribution(k, party.round_num, FALSE)
               IN /\ placeholder \in party'.produced
                  /\ party'.inflight = party.inflight \ {k}
                  /\ party'.pc \in {"rounds", "synthesis"}
                  /\ (party.mode = "round-robin" \/ party'.round_num > party.round_num)
                        => Recorded(party', placeholder)
                  /\ (party.mode = "round-robin" /\ k < party.agents)
                        => party'.turn = k + 1 /\ party'.round_num = party.round_num
       /\ party'.pc \in {"synthesis", "returned"} => AllRecorded(party')
      ]_vars

\* A session of two or more agents and rounds has returned although the
\* first agent's session of round 1 raised: the placeholder and every other
\* contribution are in the history.
C24_Witness ==
    /\ party.pc = "returned"
    /\ party.agents >= 2
    /\ party.rounds >= 2
    /\ Contribution(1, 1, FALSE) \in party.produced
    /\ Recorded(party, Contribution(1, 1, FALSE))
    /\ AllRecorded(party)

\* C25. The synthesis is computed from the finished history: the one
\* synthesis invocation of a session is issued only when every invocation of
\* every round, the last included, has returned and is in the history, never
\* while a round is in progress; before it the session has issued at most
\* rounds * agents invocations, and a session that gets to its synthesis or
\* returns has issued exactly rounds * agents + 1.
C25_SingleSynthesis ==
    /\ party.invoked <= party.rounds * party.agents + 1
    /\ party.pc \in {"rounds", "raised"} =>
          /\ party.synthesis = Absent
          /\ party.invoked <= party.rounds * party.agents
    /\ party.pc \in {"synthesis", "returned"} =>
          /\ party.inflight = {}
          /\ party.round_num = party.rounds + 1
          /\ \A a \in 1..party.agents : \A r \in 1..party.rounds : Returned(a, r)
          /\ AllRecorded(party)
          /\ party.invoked = party.rounds * party.agents + 1
    /\ party.pc = "returned" <=> party.synthesis # Absent

\* The synthesis invocation of a session of three rounds over three agents is
\* in progress: it is invocation 10.
C25_Witness ==
    /\ party.pc = "synthesis"
    /\ party.rounds = 3
    /\ party.agents = 3
    /\ party.invoked = 10
    /\ Cardinality(party.produced) = 9

\* C26. However the synthesis invocation ends, and so when it raises,
\* run_party_mode returns a result with status success, with the history of
\* the completed rounds as it stood when the synthesis began, every
\* contribution in it, and with a synthesis: the generated text, or the basic
\* fallback section when the invocation raised.
C26_SynthesisDegrades ==
    [][(party.pc = "synthesis" /\ party' # party) =>
          /\ party'.pc = "returned"
          /\ party'.status = "success"
          /\ party'.synthesis \in {"ai", "basic"}
          /\ party'.discussion_history = party.discussion_history
          /\ AllRecorded(party')
      ]_vars

\* A session of two agents and two rounds whose synthesis invocation raised
\* has returned a successful result with the basic synthesis.
C26_Witness ==
    /\ party.pc = "returned"
    /\ party.synthesis = "basic"
    /\ party.status = "success"
    /\ party.agents >= 2
    /\ party.rounds >= 2
    /\ AllRecorded(party)

\* C27. run_party_mode never raises, in either mode: no failure while a
\* participant's or the synthesis invocation is prepared or performed leaves
\* the call as an exception.
C27_NeverRaises == party.pc # "raised"

\* A free-form session in which the directory of a later task could not be
\* made: the exception left the join and run_party_mode while another task of
\* the round was still in flight.
C27_RaisedInJoin ==
    /\ party.mode = "free-form"
    /\ party.pc = "raised"
    /\ party.inflight # {}
    /\ party.status = Absent

\* The history h is in the order of the discussion: no entry comes after an
\* entry of a later round, or of the same round and a later role.
Ordered(h) == \A i, j \in 1..Len(h) : i < j => ~Before(h[j], h[i])

\* C28. The discussion history is append-only and ordered: every step leaves
\* the entries it had in place, adding at the end only, and the history is in
\* the order of the rounds and, within a round, of the roles list, whatever
\* the order in which the invocations of a free-form round return.
C28_HistoryOrdered ==
    [][/\ IsPrefix(party.discussion_history, party'.discussion_history)
       /\ Ordered(party'.discussion_history)
      ]_vars

\* A round-robin round of two agents is over: the history holds the
\* contribution of the second agent before one of the first agent.
C28_RoundOutOfOrder ==
    /\ party.mode = "round-robin"
    /\ party.agents = 2
    /\ party.round_num = 2
    /\ Len(party.discussion_history) = 4
    /\ party.discussion_history[2].agent = 2
    /\ party.discussion_history[3].agent = 1
    /\ party.discussion_history[3].round_num = 1

\* C29. The content of every contribution made, the text of a successful
\* invocation or the placeholder of a failed one, has at most 500 characters.
C29_ContentCapped == party.stored <= ContentCap

\* The session of a participant raised with a long error text: the
\* placeholder made for it is longer than the cap.
C29_LongPlaceholder ==
    /\ party.failures > 0
    /\ \E c \in party.produced : ~c.ok
    /\ party.stored > ContentCap

\* What holds of the session p while an invocation is in flight: it is in
\* its rounds (or has raised), with no synthesis and no result; the
\* invocations in flight are of the current round, have not returned, and no
\* contribution of the round is in the history of a free-form session; in
\* round-robin mode the one in flight is the last one invoked.
Waiting(p) ==
    /\ p.pc \in {"rounds", "raised"}
    /\ p.synthesis = Absent
    /\ p.status = Absent
    /\ p.context.round_num = p.round_num
    /\ p.round_num <= p.rounds
    /\ \A k \in p.inflight :
           \A c \in p.produced : ~(c.agent = k /\ c.round_num = p.round_num)
    /\ p.mode = "free-form" =>
           \A i \in 1..Len(p.discussion_history) :
               p.discussion_history[i].round_num < p.round_num
    /\ p.mode = "round-robin" =>
           /\ p.inflight = {p.turn}
           /\ p.context.agent = p.turn
           /\ p.invoked = (p.round_num - 1) * p.agents + p.turn

\* C30. There is no cancellation and no timeout: an invocation stays in
\* flight until its own session returns, and as long as one is in flight no
\* later participant of a round-robin round is invoked, the join of a
\* free-form round does not complete, and no later round, no synthesis and no
\* result is made.  An invocation that never returns holds all of them back
\* for ever.
C30_NoTimeout ==
    [][/\ \A k \in party.inflight :
              k \notin party'.inflight =>
                  Contribution(k, party.round_num, TRUE) \in party'.produced
                     \/ Contribution(k, party.round_num, FALSE) \in party'.produced
       /\ party'.inflight # {} => Waiting(party')
      ]_vars

\* Round 2 of a free-form session of three agents: two sessions have
\* returned, the first agent's has not, and the session waits.
C30_Witness ==
    /\ party.mode = "free-form"
    /\ party.agents = 3
    /\ party.round_num = 2
    /\ party.inflight = {1}
    /\ Cardinality(party.results) = 2
    /\ party.pc = "rounds"

\* The event that may come just before the event e of a call's trace: nothing
\* comes before the first on_step_start, whose number is one more than the
\* resume index, or before the on_error of a workflow that was not found.
Precedes(d, e) ==
    CASE e.ev = "on_step_start" ->
             d = Ev("on_step_complete", e.n - 1)
      [] e.ev = "execute_step" -> d = Ev("on_step_start", e.n)
      [] e.ev = "mark_step_complete" -> d = Ev("execute_step", e.n)
      [] e.ev = "on_step_complete" -> d = Ev("mark_step_complete", e.n)
      [] e.ev = "on_error" -> d = Ev("execute_step", e.n)
      [] e.ev = "on_workflow_complete" ->
             d.ev \in {"on_step_complete"}
      [] OTHER -> FALSE

\* C31. Within one execute_workflow call the events follow the step order:
\* on_step_start(n), the invocation of step n, the completion write of the
\* state store, on_step_complete(n), then the same for n + 1; the first
\* number is the resume index plus one, numbers are 1-based and go up by one;
\* on_error follows the invocation of the failing step and is the last event
\* of the call.
C31_EventOrder ==
    \A i \in 1..Len(trace) :
        LET e == trace[i]
        IN /\ e.ev = "on_error" => i = Len(trace)
           /\ e.ev \in {"on_step_start", "execute_step", "mark_step_complete",
                        "on_step_complete"} => e.n >= 1
           /\ e.ev = "on_step_start" => i < Len(trace)
           /\ IF i = 1
              THEN \/ e = Ev("on_step_start", call.startIndex + 1)
                   \/ e = Ev("on_error", 0) /\ ~workflows[call.name].found
                   \/ e.ev = "on_workflow_complete"
              ELSE Precedes(trace[i - 1], e)

\* A call that resumed after one completed step ran step 2, told the
\* observer, and failed at step 3.
C31_Witness ==
    /\ pc = "returned"
    /\ call.startIndex = 1
    /\ trace = <<Ev("on_step_start", 2), Ev("execute_step", 2),
                 Ev("mark_step_complete", 2), Ev("on_step_complete", 2),
                 Ev("on_step_start", 3), Ev("execute_step", 3),
                 Ev("on_error", 3)>>

\* C32. No automatic retry: the steps a call invokes are the steps after the
\* resume index, each once and in the order of the definition, so at most
\* len(steps) - resumeIndex of them; a step that fails or raises is the last
\* one the call invokes, and the call is over with it.
C32_NoRetry ==
    call.name \in Keys =>
        LET steps == workflows[call.name].steps
        IN /\ \A i \in 1..Len(Invoked) : Invoked[i].n = call.startIndex + i
           /\ Len(Invoked) > 0 =>
                 Len(Invoked) <= Len(steps) - call.startIndex
           /\ \A i \in 1..Len(trace) :
                 trace[i].ev = "on_error" =>
                     /\ pc = "returned"
                     /\ \A j \in i..Len(trace) : trace[j].ev # "execute_step"
           /\ (Len(trace) > 0 /\ trace[Len(trace)].ev = "execute_step") =>
                 pc = "raised"
           /\ (pc = "returned" /\ result.status = "failed"
                  /\ result.failed_step # NoneInt) =>
                 /\ Len(Invoked) > 0
                 /\ Invoked[Len(Invoked)].n = result.failed_step
                 /\ call.index = result.failed_step - 1

\* A fresh call on a workflow of three steps invoked step 1 and step 2, once
\* each, step 2 failed, and step 3 was not invoked.
C32_Witness ==
    /\ pc = "returned"
    /\ Len(workflows[call.name].steps) = 3
    /\ call.startIndex = 0
    /\ result.failed_step = 2
    /\ Len(Invoked) = 2
    /\ Invoked[1].n = 1
    /\ Invoked[2].n = 2

\* C33. Round-robin mode is sequential within and across rounds: at most one
\* invocation is in flight at any moment, it is the one started last, and
\* when an invocation starts every invocation before it, of the earlier
\* agents of its round and of all agents of the earlier rounds, has returned.
C33_RoundRobinSequential ==
    party.mode = "round-robin" =>
        /\ Cardinality(party.inflight) <= 1
        /\ party.inflight \subseteq {party.context.agent}
        /\ party.context.agent > 0 =>
              \A a \in 1..party.agents : \A r \in 1..party.context.round_num :
                  Before([agent |-> a, round_num |-> r], party.context)
                      => Returned(a, r)

\* The first agent's invocation of round 2 of a round-robin session of three
\* agents is in flight, alone, after the three of round 1 returned.
C33_Witness ==
    /\ party.mode = "round-robin"
    /\ party.agents = 3
    /\ party.context.round_num = 2
    /\ party.context.agent = 1
    /\ party.inflight = {1}
    /\ Cardinality(party.produced) = 3

\* C34. In free-form mode the fan-out of a round is the number of roles: the
\* invocations in flight are of distinct agents of the roles list, so never
\* more than len(roles); every task started in the round is in flight or has
\* returned; and all invocations in flight belong to the current round, none
\* of them to a round that was joined or to a later one.
C34_FanOut ==
    party.mode = "free-form" =>
        /\ party.inflight \subseteq 1..party.agents
        /\ Cardinality(party.inflight) <= party.agents
        /\ party.pc = "rounds" =>
              Cardinality(party.inflight) + Cardinality(party.results)
                  = party.turn - 1
        /\ party.inflight # {} =>
              /\ party.context.round_num = party.round_num
              /\ party.round_num <= party.rounds
              /\ \A k \in party.inflight : ~Returned(k, party.round_num)
              /\ \A c \in party.produced : c.round_num <= party.round_num

\* All invocations of round 2 of a free-form session of four agents are in
\* flight at once.
C34_Witness ==
    /\ party.mode = "free-form"
    /\ party.agents = 4
    /\ party.round_num = 2
    /\ party.inflight = 1..party.agents
    /\ party.results = {}

\* C35. Termination: when every invocation returns or raises in the end,
\* run_party_mode returns a result in the end, in either mode, after exactly
\* the requested number of rounds.
C35_PartyTerminates ==
    <>(party.pc = "returned" /\ party.round_num = party.rounds + 1)

\* A round-robin session that is over without a result before its last
\* round was done, with no invocation outstanding.
C35_EndedWithoutResult ==
    /\ party.mode = "round-robin"
    /\ party.pc = "raised"
    /\ party.inflight = {}
    /\ party.round_num < party.rounds
    /\ party.status = Absent

\* C36. One history entry per invocation: the history run_party_mode returns
\* for R rounds over n roles has R * n entries, entry i being that of role
\* ((i - 1) mod n) + 1 in round ((i - 1) div n) + 1, so each pair of role and
\* round occurs once and the sequence of pairs is the same in both modes.
C36_OneEntryPerInvocation ==
    party.pc = "returned" =>
        /\ Len(party.discussion_history) = party.rounds * party.agents
        /\ \A i \in 1..Len(party.discussion_history) :
              /\ party.discussion_history[i].agent
                    = ((i - 1) % party.agents) + 1
              /\ party.discussion_history[i].round_num
                    = ((i - 1) \div party.agents) + 1

\* A round-robin session of two rounds over two roles has returned a history
\* of eight entries, each contribution twice.
C36_DoubledHistory ==
    /\ party.mode = "round-robin"
    /\ party.pc = "returned"
    /\ party.rounds = 2
    /\ party.agents = 2
    /\ Len(party.discussion_history) = 8
    /\ \A c \in party.produced :
          Cardinality({i \in 1..8 : party.discussion_history[i] = c}) = 2

\* C37. The history rendered into a context shows no contribution twice:
\* with m contributions made before the invocation (those its mode lets it
\* see), the context renders the min(10, m) latest of them, each once.
C37_EachShownOnce ==
    party.context.agent > 0 =>
        LET prior == Prior
            m == Len(prior)
            shown == party.context.shown
        IN /\ NoDuplicates(shown)
           /\ Len(shown) = IF m < HistoryWindow THEN m ELSE HistoryWindow
           /\ \A i \in 1..Len(shown) : shown[i] = prior[m - Len(shown) + i]

\* The context of the first invocation of round 2 of a round-robin session
\* shows a contribution of round 1 twice.
C37_ShownTwice ==
    /\ party.mode = "round-robin"
    /\ party.context.round_num = 2
    /\ party.context.agent = 1
    /\ \E i, j \in 1..Len(party.context.shown) :
          i < j /\ party.context.shown[i] = party.context.shown[j]

\* C38. For every definition, one with two steps of the same name included:
\* whenever the persisted status is completed, stepsCompleted has as many
\* entries as the definition has steps.
C38_CompletedCountsEveryStep ==
    \A k \in Keys :
        (workflows[k].found /\ GetState(files, k).status = "completed") =>
            Len(GetState(files, k).stepsCompleted) = Len(workflows[k].steps)

\* A call ran both steps of a definition whose two steps have the same name
\* and returned success: the record is completed with one name.
C38_CompletedWithFewer ==
    /\ pc = "returned"
    /\ result.status = "success"
    /\ workflows[call.name].steps = <<"a", "a">>
    /\ Len(Invoked) = 2
    /\ CallState.status = "completed"
    /\ CallState.stepsCompleted = <<"a">>

\* C39. With one writer and an unchanged definition, stepsCompleted is a
\* prefix of the definition's step names, its i-th entry the name of step i,
\* so that the resume index len(stepsCompleted) is the number of the steps
\* the calls have run with success and points at the first one not yet run.
C39_CompletedIsPrefix ==
    \A k \in Keys :
        workflows[k].found =>
            IsPrefix(GetState(files, k).stepsCompleted, workflows[k].steps)

\* A call ran the three steps a, a, b with success: stepsCompleted is
\* <<a, b>>, whose second entry is not the name of step 2, and its length 2
\* is the index of step 3, which has run.
C39_NotAPrefix ==
    /\ pc = "returned"
    /\ result.status = "success"
    /\ workflows[call.name].steps = <<"a", "a", "b">>
    /\ Len(Invoked) = 3
    /\ CallState.stepsCompleted = <<"a", "b">>
    /\ Len(CallState.stepsCompleted) = 2

\* The workflow name the step just taken was made on: that of the engine
\* call, or the key of the state-store operation.
KeyOf(c, l) == IF c.name \in Keys THEN c.name ELSE l.key

\* C40. Per-key isolation: every step of an execute_workflow call on a
\* workflow name, and every state-store operation on a name
\* (mark_step_complete, mark_workflow_complete, mark_workflow_failed,
\* save_state, reset_workflow), whether or not its write succeeds, leaves the
\* state file of every other name as it was.
C40_PerKeyIsolation ==
    [][/\ KeyOf(call', last') \in Keys
       /\ \A b \in Keys \ {KeyOf(call', last')} : files'[b] = files[b]
      ]_vars

\* A call on w1 has completed a step while w2 has a record of its own, made
\* by a state-store operation before the call.
C40_Witness ==
    /\ pc = "running"
    /\ call.name = "w1"
    /\ call.index >= 1
    /\ files["w1"].kind = "json"
    /\ files["w2"].kind = "json"
    /\ Len(GetState(files, "w2").stepsCompleted) > 0

====
